---- MODULE Spec2Model ----
(***************************************************************************)
(* The crawl-and-query orchestrator (crawler/crawl_query.py), the crawl    *)
(* scheduler (crawler/crawler.py), the ranking query                       *)
(* (crawler/store/scorer.py), the state files (crawler/store/              *)
(* persistence.py), the duplicate filter (crawler/heuristics.py) and the   *)
(* timers and harvest meter (crawler/evaluation_metrics.py).               *)
(*                                                                         *)
(* Scores and thresholds are percentages (0.4 is 40); the two ranking      *)
(* weights are tenths (0.6 is 6).  Python's None is the string "None".     *)
(* The files call each other through interfaces of different ages; a call  *)
(* is bound to the function of that role, and every function body is the   *)
(* one in the source.                                                      *)
(***************************************************************************)
EXTENDS Integers, Sequences, FiniteSets, TLC

None == "None"

(* str(e) of an exception: it may be the empty string (TimeoutError()). *)
Messages == {"", "failed"}

MaybeMessage == {None} \cup Messages

(* Python truthiness of an optional string: `if cache_error:`. *)
Truthy(s) == s # None /\ s # ""

Min(x, y) == IF x <= y THEN x ELSE y

Max(x, y) == IF x >= y THEN x ELSE y

ToSet(s) == {s[i] : i \in DOMAIN s}

(***************************************************************************)
(* Bounds of the model and the request inputs it draws.                    *)
(***************************************************************************)
MaxNumResults == 2

NumResultsInputs == 0..MaxNumResults

ThresholdInputs == {30, 40}

SeedCountInputs == {0, 2}

MaxDepthInputs == {0, 1}

(* The longest store the persistence specification lets a process build. *)
MaxStoreLen == 3

(***************************************************************************)
(* config.py                                                               *)
(***************************************************************************)
heuristic_score_weight == 6

cosine_similarity_score_weight == 4

minimum_relevance_threshold == 15

depth_relevance_step == 5

batch_size == 20

crawl_num_results == 3

(***************************************************************************)
(* The web the stubbed fetcher, extractor and search provider serve: four  *)
(* pages of one host.  a and b carry the same body under different URLs    *)
(* and score differently; s links to both, to a twice, and the link graph  *)
(* has a cycle (s -> a -> s).  c scores too low to be processed and no     *)
(* page links to it.                                                       *)
(***************************************************************************)
URLs == {"s", "a", "b", "c"}

(* crawler.py 253: requests.get(url, timeout=10) follows redirects, so the  *)
(* response, and with it the body, the score and the links, is that of the *)
(* URL the request ends at.  r is a URL outside the host's pages that      *)
(* redirects to s; no page links to it.                                    *)
Resolved(url) == IF url = "r" THEN "s" ELSE url

MainContent(url) == IF Resolved(url) = "s" THEN "B2" ELSE "B1"

PageScore(url) ==
    LET page == Resolved(url)
    IN  IF page = "s" THEN 40 ELSE IF page = "a" THEN 80
        ELSE IF page = "b" THEN 30 ELSE 10

PageLinks(url) ==
    LET page == Resolved(url)
    IN  IF page = "s" THEN <<"a", "b", "a">>
        ELSE IF page = "a" THEN <<"s">> ELSE <<"a">>

(* TF-IDF cosine of the request's query against a body, as a percentage. *)
CosineSimilarity(main_content) == IF main_content = "B1" THEN 40 ELSE 30

(* hashlib.sha256(content_text.encode(...)).hexdigest(): injective on bodies. *)
ContentHash(main_content) == <<"sha256", main_content>>

(* The engines' ranked list for the prompt: one prompt finds s, another a   *)
(* and b, a third c.                                                        *)
SearchRankings == {<<"s">>, <<"a", "b">>, <<"c">>}

(* perform_search: the top num_seed_urls of the engines' ranked list. *)
perform_search(ranking, num_seed_urls) ==
    SubSeq(ranking, 1, Min(Max(num_seed_urls, 0), Len(ranking)))

(***************************************************************************)
(* store/scorer.py: calculate_score                                        *)
(***************************************************************************)
WeightedScore(h, c) ==
    (heuristic_score_weight * h + cosine_similarity_score_weight * c) \div 10

StoreWeighted(store, i) ==
    WeightedScore(store[i].heuristic_score, CosineSimilarity(store[i].main_content))

(* np.argsort(weighted_scores)[::-1]: ascending stable order reversed, so of *)
(* two equal scores the later document comes first.  Position of index i.    *)
ArgsortReversedPosition(store, i) ==
    1 + Cardinality({j \in DOMAIN store :
                        \/ StoreWeighted(store, j) > StoreWeighted(store, i)
                        \/ /\ StoreWeighted(store, j) = StoreWeighted(store, i)
                           /\ j > i})

TopIndex(store, p) ==
    CHOOSE i \in DOMAIN store : ArgsortReversedPosition(store, i) = p

ScoredCopy(store, i) ==
    [url |-> store[i].url,
     main_content |-> store[i].main_content,
     heuristic_score |-> store[i].heuristic_score,
     cosine_similarity_score |-> CosineSimilarity(store[i].main_content),
     weighted_score |-> StoreWeighted(store, i)]

calculate_score(store, k) ==
    IF store = <<>> THEN <<>>
    ELSE IF \A i \in DOMAIN store : store[i].main_content = "" THEN <<>>
    ELSE LET actual_k == Min(k, Len(store))
         IN  IF actual_k <= 0 THEN <<>>
             ELSE [p \in 1..actual_k |-> ScoredCopy(store, TopIndex(store, p))]

StoreAfterQueryInPlace(store, k) ==
    [i \in DOMAIN store |->
        IF ArgsortReversedPosition(store, i) <= k THEN ScoredCopy(store, i)
        ELSE store[i]]

(* Line 77: the scores are written into content_store[i].copy(), so the    *)
(* store is after the query what it was before.                            *)
StoreAfterQuery(store, k) == store

(***************************************************************************)
(* store/persistence.py: the three state files                             *)
(***************************************************************************)
(* pickle.dump and pickle.load: the value comes back as it was written (a   *)
(* set as an equal set, a list in its order); a file whose write was cut    *)
(* short holds no pickle and pickle.load raises on it.                      *)
Pickle(value) == [pickle |-> TRUE, value |-> value]

Truncated(empty) == [pickle |-> FALSE, value |-> empty]

NoFile(empty) == [exists |-> FALSE, data |-> Truncated(empty)]

File(data) == [exists |-> TRUE, data |-> Pickle(data)]

TruncatedFile(empty) == [exists |-> TRUE, data |-> Truncated(empty)]

EmptyDisk ==
    [visited_urls |-> NoFile({}), content_hashes |-> NoFile({}),
     content_store |-> NoFile(<<>>)]

save_state_store_dropped(visited, hashes, store) ==
    [visited_urls |-> File(visited), content_hashes |-> File(hashes),
     content_store |-> File(<<>>)]

(* save_state: the three files are written one after the other. *)
save_state(visited, hashes, store) ==
    [visited_urls |-> File(visited), content_hashes |-> File(hashes),
     content_store |-> File(store)]

StateFiles == {"visited_urls", "content_hashes", "content_store"}

(* save_state, lines 30-52, when the write of the file failed_at raises:    *)
(* the files before it are written, the file itself is left as it was or    *)
(* truncated by open(..., 'wb'), the files after it are not touched; the    *)
(* exception is logged only.                                                *)
save_state_failing(d, visited, hashes, store, failed_at, truncated) ==
    [visited_urls |->
        IF failed_at = "visited_urls"
        THEN (IF truncated THEN TruncatedFile({}) ELSE d.visited_urls)
        ELSE File(visited),
     content_hashes |->
        IF failed_at = "visited_urls" THEN d.content_hashes
        ELSE IF failed_at = "content_hashes"
        THEN (IF truncated THEN TruncatedFile({}) ELSE d.content_hashes)
        ELSE File(hashes),
     content_store |->
        IF failed_at = "content_store"
        THEN (IF truncated THEN TruncatedFile(<<>>) ELSE d.content_store)
        ELSE d.content_store]

(* load_state, lines 98-102: an exception while a file is read gives the    *)
(* empty state for all three.                                               *)
LoadFails(d) == \E f \in StateFiles : d[f].exists /\ ~d[f].data.pickle

LoadedVisitedBeforeFailure(d) ==
    IF d.visited_urls.exists /\ d.visited_urls.data.pickle
    THEN d.visited_urls.data.value
    ELSE {}

(* load_state: a missing file gives the empty value. *)
LoadedVisited(d) ==
    IF LoadFails(d) \/ ~d.visited_urls.exists THEN {} ELSE d.visited_urls.data.value

LoadedHashes(d) ==
    IF LoadFails(d) \/ ~d.content_hashes.exists THEN {}
    ELSE d.content_hashes.data.value

LoadedStore(d) ==
    IF LoadFails(d) \/ ~d.content_store.exists THEN <<>>
    ELSE d.content_store.data.value

(***************************************************************************)
(* State.  disk and content_store outlive a request (content_store is the  *)
(* process-wide store that scorer.py, persistence.py and crawl_query.py    *)
(* read); the other variables are the fields of the request's crawler, the *)
(* locals of perform_crawl_and_query and of AdaptiveWebCrawler.crawl, and  *)
(* a history record, trace, that no action reads.                          *)
(***************************************************************************)
VARIABLES disk, content_store, visited_urls, content_hashes, cache_metrics, depth_metrics,
          pc, req, timer, initial_results, results, from_cache, llm_response,
          error_messages, process_status, cache_error, crawl_error, llm_error,
          metadata, response, crawl, trace

process_vars == <<disk, content_store>>

crawler_vars == <<visited_urls, content_hashes, cache_metrics, depth_metrics>>

error_vars == <<error_messages, process_status, cache_error, crawl_error, llm_error>>

vars == <<disk, content_store, visited_urls, content_hashes, cache_metrics, depth_metrics,
          pc, req, timer, initial_results, results, from_cache, llm_response,
          error_messages, process_status, cache_error, crawl_error, llm_error,
          metadata, response, crawl, trace>>

NoRequest ==
    [force_crawl |-> FALSE, n |-> 0, relevance_threshold |-> 0,
     use_llm_response |-> FALSE]

NoTimer == [started |-> FALSE, stopped |-> FALSE]

NoMetadata ==
    [keys |-> {}, from_cache |-> FALSE, visited_total |-> 0,
     content_collected_total |-> 0, cache_error |-> None, crawl_error |-> None,
     llm_error |-> None]

NoResponse ==
    [status |-> "none", results |-> <<>>, metadata |-> NoMetadata,
     llm_response |-> "N/A", time_metrics |-> "none", error |-> <<>>]

(* The locals of crawl and _process_urls_at_depth.  The last eight fields    *)
(* are history no action reads: the documents admitted with the threshold   *)
(* of their depth, the queue, hash set and store a batch started from, the  *)
(* URLs requested from the web, those requested more than once, and the     *)
(* URLs of the batch whose fetch succeeded.                                 *)
NoCrawl ==
    [max_depth |-> 0, current_depth |-> 0, urls_to_crawl |-> <<>>,
     all_discovered_urls |-> {},
     relevance_threshold |-> 0, next_urls |-> <<>>, i |-> 0,
     batch_urls |-> {}, queue |-> <<>>, in_flight |-> {},
     found_relevant_results |-> FALSE,
     admitted |-> {}, batch_queue |-> <<>>, batch_hashes |-> {},
     batch_store |-> <<>>, batch_raised |-> FALSE,
     requested |-> {}, requested_again |-> {}, batch_fetched |-> {}]

(* evaluation_metrics.py 48-50: the meter of a new crawler has no depth     *)
(* bucket and an empty cache bucket.                                       *)
NoDepthMetrics == [depth \in {} |-> [relevant |-> 0, total |-> 0]]

Snapshot ==
    [visited_urls |-> visited_urls, content_hashes |-> content_hashes,
     content_store |-> content_store, disk |-> disk]

NoTrace(before) ==
    [crawl_calls |-> 0, failed |-> {}, cache_checked |-> FALSE,
     seeds_raised |-> FALSE, emergency_raised |-> FALSE, before |-> before]

(* TimeMetric.get_metrics: an error entry until stop() has set the duration. *)
get_time_metrics(t) == IF t.stopped THEN "measured" ELSE "Timer has not been stopped"

Init ==
    /\ disk = EmptyDisk
    /\ content_store = <<>>
    /\ visited_urls = {}
    /\ content_hashes = {}
    /\ cache_metrics = [relevant |-> 0, total |-> 0]
    /\ depth_metrics = NoDepthMetrics
    /\ pc = "idle"
    /\ req = NoRequest
    /\ timer = NoTimer
    /\ initial_results = <<>>
    /\ results = <<>>
    /\ from_cache = FALSE
    /\ llm_response = None
    /\ error_messages = <<>>
    /\ process_status = "success"
    /\ cache_error = None
    /\ crawl_error = None
    /\ llm_error = None
    /\ metadata = NoMetadata
    /\ response = NoResponse
    /\ crawl = NoCrawl
    /\ trace = NoTrace(Snapshot)

(***************************************************************************)
(* crawl_query.py: perform_crawl_and_query                                 *)
(***************************************************************************)
ErrorEntry(phase, message) == <<phase, message>>

(* Lines 93-101 and 111-119: the early returns. *)
EarlyReturn(flag, label) ==
    [status |-> "error", results |-> <<>>,
     metadata |-> [NoMetadata EXCEPT !.keys = {flag}],
     llm_response |-> "N/A", time_metrics |-> get_time_metrics(timer),
     error |-> <<ErrorEntry(label, "failed")>>]

(* Lines 46-67: the tracking variables are initialised and the timer is     *)
(* started; TimeMetric.start (evaluation_metrics.py 16-20) only reads the   *)
(* clock, so the except branch of lines 65-67 is never taken.               *)
StartRequest ==
    /\ pc \in {"idle", "done"}
    /\ timer' = [started |-> TRUE, stopped |-> FALSE]
    /\ error_messages' = <<>>
    /\ req' = NoRequest
    /\ initial_results' = <<>>
    /\ results' = <<>>
    /\ from_cache' = FALSE
    /\ llm_response' = None
    /\ process_status' = "success"
    /\ cache_error' = None
    /\ crawl_error' = None
    /\ llm_error' = None
    /\ metadata' = NoMetadata
    /\ response' = NoResponse
    /\ crawl' = NoCrawl
    /\ trace' = NoTrace(Snapshot)
    /\ pc' = "init"
    /\ UNCHANGED <<process_vars, crawler_vars>>

AfterInitializationErrorMissingReturn == "construct"

(* Line 93: the except branch of the initialization phase returns. *)
AfterInitializationError == "done"

(* Lines 69-101: query expansion, keywords and the defaults of the request. *)
InitializationPhase ==
    /\ pc = "init"
    /\ \E raises \in BOOLEAN :
          IF raises
          THEN /\ error_messages' =
                     Append(error_messages, ErrorEntry("Initialization error", "failed"))
               /\ process_status' = "error"
               /\ response' = EarlyReturn("initialization_failed",
                                          "Failed during initialization")
               /\ trace' = [trace EXCEPT !.failed = @ \cup {"initialization"}]
               /\ pc' = AfterInitializationError
          ELSE /\ pc' = "construct"
               /\ UNCHANGED <<error_messages, process_status, response, trace>>
    /\ UNCHANGED <<process_vars, crawler_vars, req, timer, initial_results, results,
                   from_cache, llm_response, cache_error, crawl_error, llm_error,
                   metadata, crawl>>

(* Lines 103-119 and crawler.py 20-40: a new crawler has an empty visited set *)
(* and an empty hash set; it loads no state.                                  *)
CrawlerInitialization ==
    /\ pc = "construct"
    /\ \E raises \in BOOLEAN :
          IF raises
          THEN /\ error_messages' =
                     Append(error_messages,
                            ErrorEntry("Crawler initialization error", "failed"))
               /\ process_status' = "error"
               /\ response' = EarlyReturn("crawler_initialization_failed",
                                          "Failed to initialize crawler")
               /\ trace' = [trace EXCEPT !.failed = @ \cup {"crawler_initialization"}]
               /\ pc' = "done"
               /\ UNCHANGED crawler_vars
          ELSE /\ visited_urls' = {}
               /\ content_hashes' = {}
               /\ cache_metrics' = [relevant |-> 0, total |-> 0]
               /\ depth_metrics' = NoDepthMetrics
               /\ pc' = "cache"
               /\ UNCHANGED <<error_messages, process_status, response, trace>>
    /\ UNCHANGED <<process_vars, req, timer, initial_results, results, from_cache,
                   llm_response, cache_error, crawl_error, llm_error, metadata,
                   crawl>>

CacheEnabledIgnoringFlag(force_crawl) == TRUE

(* Line 124: `if not force_crawl`. *)
CacheEnabled(force_crawl) == ~force_crawl

CacheHitMoreThanAsked(found, n, threshold) ==
    /\ found # <<>>
    /\ Len(found) > n
    /\ \A i \in DOMAIN found : found[i].weighted_score >= threshold

(* Line 128: the cache-hit test. *)
CacheHit(found, n, threshold) ==
    /\ found # <<>>
    /\ Len(found) >= n
    /\ \A i \in DOMAIN found : found[i].weighted_score >= threshold

(* A meter that counts one page per cache access, whatever was returned. *)
record_cache_access_one_per_hit(metrics, found, base_relevance_threshold) ==
    IF found = <<>> THEN metrics
    ELSE [total |-> metrics.total + 1,
          relevant |-> metrics.relevant
                         + Cardinality({i \in DOMAIN found :
                               found[i].weighted_score >= base_relevance_threshold})]

(* evaluation_metrics.py 76-91: HarvestRatio.record_cache_access *)
record_cache_access(metrics, found, base_relevance_threshold) ==
    IF found = <<>> THEN metrics
    ELSE [total |-> metrics.total + Len(found),
          relevant |-> metrics.relevant
                         + Cardinality({i \in DOMAIN found :
                               found[i].weighted_score >= base_relevance_threshold})]

(* Lines 121-145.  The request's n, threshold and force_crawl are first read *)
(* here.  crawler.query may raise.                                           *)
CacheCheckPhase ==
    /\ pc = "cache"
    /\ \E force_crawl \in BOOLEAN, n \in NumResultsInputs,
          threshold \in ThresholdInputs, raised \in MaybeMessage :
          /\ ~CacheEnabled(force_crawl) => raised = None
          /\ req' = [req EXCEPT !.force_crawl = force_crawl, !.n = n,
                                !.relevance_threshold = threshold]
          /\ IF ~CacheEnabled(force_crawl)
             THEN /\ trace' = trace
                  /\ UNCHANGED <<initial_results, results, from_cache, cache_metrics,
                                 error_vars, content_store>>
             ELSE IF raised # None
             THEN /\ error_messages' =
                        Append(error_messages, ErrorEntry("Cache check error", raised))
                  /\ cache_error' = raised
                  /\ process_status' = "partial_success"
                  /\ trace' = [trace EXCEPT !.failed = @ \cup {"cache"}]
                  /\ UNCHANGED <<initial_results, results, from_cache, cache_metrics,
                                 crawl_error, llm_error, content_store>>
             ELSE LET found == calculate_score(content_store, n)
                  IN  /\ initial_results' = found
                      /\ content_store' = StoreAfterQuery(content_store, n)
                      /\ trace' = [trace EXCEPT !.cache_checked = TRUE]
                      /\ IF CacheHit(found, n, threshold)
                         THEN /\ results' = found
                              /\ cache_metrics' =
                                    record_cache_access(cache_metrics, found, threshold)
                              /\ from_cache' = TRUE
                         ELSE UNCHANGED <<results, cache_metrics, from_cache>>
                      /\ UNCHANGED error_vars
    /\ pc' = IF from_cache' THEN "timer" ELSE "crawl"
    /\ UNCHANGED <<disk, visited_urls, content_hashes, depth_metrics, timer, llm_response,
                   metadata, response, crawl>>

(***************************************************************************)
(* crawler.py: AdaptiveWebCrawler.crawl and its helpers                    *)
(***************************************************************************)
ResultsAfterEmergencyDropped(current, emergency_results) == current

(* crawl_query.py 177-180: `if emergency_results: results = emergency_results` *)
ResultsAfterEmergency(current, emergency_results) ==
    IF emergency_results # <<>> THEN emergency_results ELSE current

(* crawl_query.py 169-182: the except branch of the crawl phase, with the  *)
(* store as it is when the exception arrives.  The emergency query may     *)
(* raise too; that is logged only.                                         *)
CrawlExcept(message, store, tr) ==
    /\ error_messages' = Append(error_messages, ErrorEntry("Crawl error", message))
    /\ crawl_error' = message
    /\ process_status' = "partial_success"
    /\ \E query_raises \in BOOLEAN :
          /\ results' = IF query_raises THEN results
                        ELSE ResultsAfterEmergency(results,
                                                   calculate_score(store, req.n))
          /\ trace' = [tr EXCEPT !.failed = @ \cup {"crawl"},
                                 !.emergency_raised = query_raises]
    /\ crawl' = NoCrawl
    /\ pc' = "timer"
    /\ UNCHANGED <<cache_error, llm_error>>

(* Lines 85-88: the threshold of a depth. *)
DepthThresholdNoFloor(base_relevance_threshold, depth) ==
    base_relevance_threshold - depth * depth_relevance_step

DepthThreshold(base_relevance_threshold, depth) ==
    Max(minimum_relevance_threshold,
        base_relevance_threshold - depth * depth_relevance_step)

(* Lines 208 and 113: `results and all(r['score'] >= relevance_threshold ...)` *)
FoundRelevant(found, threshold) ==
    /\ found # <<>>
    /\ \A i \in DOMAIN found : found[i].weighted_score >= threshold

(* Lines 151-160: _update_stores saves only a non-empty store. *)
update_stores(d, visited, hashes, store) ==
    IF store # <<>> THEN save_state(visited, hashes, store) ELSE d

(* Lines 42-79 (called from crawl_query.py 152-161, which counts as one     *)
(* invocation of the scheduler): the saved state is loaded, then the seeds  *)
(* are asked from the search provider, which may raise.  num_seed_urls and  *)
(* max_depth are read here and in the loop only; the request has no urls.   *)
CrawlBeginOf(rankings) ==
    /\ pc = "crawl"
    /\ ~from_cache
    /\ visited_urls' = LoadedVisited(disk)
    /\ content_hashes' = LoadedHashes(disk)
    /\ content_store' = LoadedStore(disk)
    /\ \E num_seed_urls \in SeedCountInputs, max_depth \in MaxDepthInputs,
          ranking \in rankings, raised \in MaybeMessage :
          /\ IF raised # None
             THEN CrawlExcept(raised, content_store',
                              [trace EXCEPT !.crawl_calls = @ + 1,
                                            !.seeds_raised = TRUE])
             ELSE LET seed_urls == perform_search(ranking, num_seed_urls)
                  IN  /\ crawl' = [NoCrawl EXCEPT
                                     !.max_depth = max_depth,
                                     !.urls_to_crawl = seed_urls,
                                     !.all_discovered_urls = ToSet(seed_urls)]
                      /\ trace' = [trace EXCEPT !.crawl_calls = @ + 1]
                      /\ pc' = "loop"
                      /\ UNCHANGED <<results, error_vars>>
    /\ UNCHANGED <<disk, cache_metrics, depth_metrics, req, timer, initial_results, from_cache,
                   llm_response, metadata, response>>

CrawlBegin == CrawlBeginOf(SearchRankings)

LoopContinuesAtAnyDepth(current_depth, max_depth, urls_to_crawl) ==
    urls_to_crawl # <<>>

(* Line 81: while current_depth <= max_depth and urls_to_crawl. *)
LoopContinues(current_depth, max_depth, urls_to_crawl) ==
    current_depth <= max_depth /\ urls_to_crawl # <<>>

(* Line 81: the depth loop's test; lines 84-89 and 173-174 when it passes. *)
DepthLoop ==
    /\ pc = "loop"
    /\ IF LoopContinues(crawl.current_depth, crawl.max_depth, crawl.urls_to_crawl)
       THEN /\ crawl' = [crawl EXCEPT
                           !.relevance_threshold =
                               DepthThreshold(req.relevance_threshold,
                                              crawl.current_depth),
                           !.next_urls = <<>>, !.i = 0, !.batch_urls = {},
                           !.queue = <<>>, !.in_flight = {},
                           !.found_relevant_results = FALSE]
            /\ pc' = "batch"
       ELSE /\ pc' = "final"
            /\ UNCHANGED crawl
    /\ UNCHANGED <<process_vars, crawler_vars, req, timer, initial_results, results,
                   from_cache, llm_response, error_vars, metadata, response, trace>>

(* config.crawler.url_relevance_threshold, read at line 236. *)
url_relevance_threshold == 30

Orderings(S) ==
    {q \in [1..Cardinality(S) -> S] : \A i, j \in DOMAIN q : i # j => q[i] # q[j]}

(* Line 191: sorted by score, descending; equal scores in completion order. *)
Prioritized(S) ==
    {q \in Orderings(S) :
        \A i, j \in DOMAIN q : i < j => PageScore(q[i]) >= PageScore(q[j])}

(* The URLs a list holds more than once. *)
Repeated(q) == {q[i] : i \in {j \in DOMAIN q : \E k \in DOMAIN q : k # j /\ q[k] = q[j]}}

SkipNothing(batch, visited) == batch

(* Line 182: `[url for url in batch_urls if url not in self.visited_urls]`. *)
SkipVisited(batch, visited) == SelectSeq(batch, LAMBDA u : u \notin visited)

(* Lines 177-191 and 216-261: the next batch without the visited URLs; every *)
(* URL of it is fetched and scored by a worker (a failed fetch gives no      *)
(* score), and the URLs that scored enough are queued by score.              *)
BatchStart ==
    /\ pc = "batch"
    /\ LET urls == crawl.urls_to_crawl
           batch == SubSeq(urls, crawl.i + 1, Min(crawl.i + batch_size, Len(urls)))
           batch_urls == SkipVisited(batch, visited_urls)
       IN  IF crawl.i >= Len(urls)
           THEN /\ pc' = "depth_end"
                /\ UNCHANGED crawl
           ELSE IF batch_urls = <<>>
           THEN /\ crawl' = [crawl EXCEPT !.i = @ + batch_size]
                /\ pc' = "batch"
           ELSE \E fetched \in SUBSET ToSet(batch_urls) :
                  \E queue \in Prioritized({u \in fetched :
                                    PageScore(u) >= url_relevance_threshold}) :
                     /\ crawl' = [crawl EXCEPT !.batch_urls = ToSet(batch_urls),
                                               !.queue = queue,
                                               !.batch_queue = queue,
                                               !.batch_hashes = content_hashes,
                                               !.batch_store = content_store,
                                               !.batch_raised = FALSE,
                                               !.requested = @ \cup ToSet(batch_urls),
                                               !.requested_again =
                                                   @ \cup (crawl.requested
                                                              \cap ToSet(batch_urls))
                                                     \cup Repeated(batch_urls),
                                               !.batch_fetched = fetched]
                     /\ pc' = "process"
    /\ UNCHANGED <<process_vars, crawler_vars, req, timer, initial_results, results,
                   from_cache, llm_response, error_vars, metadata, response, trace>>

(* heuristics.py 171-185: _url_contains_keywords.  The keyword of the     *)
(* stubbed prompt occurs in the paths of s, a and c and not in that of b.  *)
url_contains_keywords(url) == url # "b"

(* heuristics.py 115-154: not empty and not a body seen before. *)
should_process_content(content_text, hashes) ==
    /\ content_text # ""
    /\ ContentHash(content_text) \notin hashes

RemoveAt(q, k) == [j \in 1..(Len(q) - 1) |-> IF j < k THEN q[j] ELSE q[j + 1]]

MarkVisitedOnly(visited, url) == {url}

(* Lines 334 and 338: self.visited_urls.add(url). *)
MarkVisited(visited, url) == visited \cup {url}

(* Line 327 with the scores of calculate_page_score: the stored document. *)
StoredDocument(url) ==
    [url |-> url, main_content |-> MainContent(url), heuristic_score |-> PageScore(url)]

(* Lines 342-379: the links of a page that are not visited yet. *)
extract_links(url, visited) == SelectSeq(PageLinks(url), LAMBDA u : u \notin visited)

DocumentDropped(store, document) == store

(* Lines 326-327: content.update(metadata) adds the scores to the dict the  *)
(* extractor returned and the list takes it; neither call raises, so a body *)
(* whose hash was added at heuristics.py 153 is stored.                     *)
StoreDocument(store, document) == Append(store, document)

(* Lines 194-197 and 301-340: at depth 0 _process_single_url runs for one   *)
(* URL after the other, in the order of the queue.  Extraction may raise;   *)
(* the URL is marked visited either way.                                    *)
ProcessUrl ==
    /\ pc = "process"
    /\ crawl.current_depth = 0
    /\ crawl.queue # <<>>
    /\ \E raises \in BOOLEAN :
          LET url == crawl.queue[1]
              admitted == ~raises /\ should_process_content(MainContent(url),
                                                            content_hashes)
          IN  /\ content_hashes' = IF admitted
                                   THEN content_hashes \cup {ContentHash(MainContent(url))}
                                   ELSE content_hashes
              /\ content_store' = IF admitted
                                  THEN StoreDocument(content_store, StoredDocument(url))
                                  ELSE content_store
              /\ visited_urls' = MarkVisited(visited_urls, url)
              /\ crawl' = [crawl EXCEPT
                             !.queue = RemoveAt(@, 1),
                             !.next_urls = IF raises THEN @
                                           ELSE @ \o extract_links(url, visited_urls),
                             !.admitted = IF admitted
                                          THEN @ \cup {<<url, crawl.relevance_threshold>>}
                                          ELSE @,
                             !.batch_raised = @ \/ raises]
    /\ UNCHANGED <<disk, cache_metrics, depth_metrics, pc, req, timer, initial_results, results,
                   from_cache, llm_response, error_vars, metadata, response, trace>>

(* Lines 198-201 and 263-298: below depth 0 the URLs of the queue run in    *)
(* workers of a thread pool.  A worker extracts the page and tests its hash *)
(* (heuristics.py 128-136); a page that passes is in flight until the       *)
(* worker adds the hash and appends the document, and other workers run in  *)
(* between.  A page that raised or was filtered out is marked visited.      *)
WorkerStart ==
    /\ pc = "process"
    /\ crawl.current_depth > 0
    /\ \E k \in DOMAIN crawl.queue, raises \in BOOLEAN :
          LET url == crawl.queue[k]
              passes == ~raises /\ should_process_content(MainContent(url),
                                                          content_hashes)
          IN  /\ visited_urls' = IF passes THEN visited_urls
                                 ELSE MarkVisited(visited_urls, url)
              /\ crawl' = [crawl EXCEPT
                             !.queue = RemoveAt(@, k),
                             !.in_flight = IF passes THEN @ \cup {url} ELSE @,
                             !.next_urls = IF passes \/ raises THEN @
                                           ELSE @ \o extract_links(url, visited_urls),
                             !.batch_raised = @ \/ raises]
    /\ UNCHANGED <<process_vars, content_hashes, cache_metrics, depth_metrics, pc, req, timer,
                   initial_results, results, from_cache, llm_response, error_vars,
                   metadata, response, trace>>

(* heuristics.py 153 and lines 325-334: the worker of a page in flight adds *)
(* the hash, appends the document, takes the links and marks the URL.       *)
WorkerFinish ==
    /\ pc = "process"
    /\ \E url \in crawl.in_flight :
          /\ content_hashes' = content_hashes \cup {ContentHash(MainContent(url))}
          /\ content_store' = StoreDocument(content_store, StoredDocument(url))
          /\ visited_urls' = MarkVisited(visited_urls, url)
          /\ crawl' = [crawl EXCEPT
                         !.in_flight = @ \ {url},
                         !.next_urls = @ \o extract_links(url, visited_urls),
                         !.admitted = @ \cup {<<url, crawl.relevance_threshold>>}]
    /\ UNCHANGED <<disk, cache_metrics, depth_metrics, pc, req, timer, initial_results, results,
                   from_cache, llm_response, error_vars, metadata, response, trace>>

BarrierPassedEarly(queue, in_flight) == TRUE

(* Lines 280-298: the `with` block of the pool ends when every future is    *)
(* done; at depth 0 the for loop of lines 195-197 has ended.                *)
BarrierPassed(queue, in_flight) == queue = <<>> /\ in_flight = {}

(* Lines 203-211: after the batch the state is saved and the store queried  *)
(* for crawl's own num_results (its default: the caller passes none).       *)
BatchEnd ==
    /\ pc = "process"
    /\ BarrierPassed(crawl.queue, crawl.in_flight)
    /\ disk' = update_stores(disk, visited_urls, content_hashes, content_store)
    /\ \E raised \in MaybeMessage :
          IF raised # None
          THEN CrawlExcept(raised, content_store, trace)
          ELSE /\ IF FoundRelevant(calculate_score(content_store, crawl_num_results),
                                   crawl.relevance_threshold)
                  THEN /\ crawl' = [crawl EXCEPT !.found_relevant_results = TRUE]
                       /\ pc' = "depth_end"
                  ELSE /\ crawl' = [crawl EXCEPT !.i = @ + batch_size]
                       /\ pc' = "batch"
               /\ UNCHANGED <<results, error_vars, trace>>
    /\ UNCHANGED <<content_store, crawler_vars, req, timer, initial_results,
                   from_cache, llm_response, metadata, response>>

(* Lines 103-125: the end of a depth. *)
DepthEnd ==
    /\ pc = "depth_end"
    /\ IF crawl.found_relevant_results
       THEN /\ pc' = "final"
            /\ UNCHANGED <<disk, crawl, results, error_vars, trace>>
       ELSE /\ disk' = update_stores(disk, visited_urls, content_hashes, content_store)
            /\ \E raised \in MaybeMessage :
                  IF raised # None
                  THEN CrawlExcept(raised, content_store, trace)
                  ELSE /\ IF FoundRelevant(
                                 calculate_score(content_store, crawl_num_results),
                                 crawl.relevance_threshold)
                          THEN /\ pc' = "final"
                               /\ UNCHANGED crawl
                          ELSE LET next_urls ==
                                     SelectSeq(crawl.next_urls,
                                        LAMBDA u : /\ u \notin crawl.all_discovered_urls
                                                   /\ u \notin visited_urls)
                               IN  /\ crawl' = [crawl EXCEPT
                                         !.all_discovered_urls = @ \cup ToSet(next_urls),
                                         !.urls_to_crawl = next_urls,
                                         !.current_depth = @ + 1]
                                   /\ pc' = "loop"
                       /\ UNCHANGED <<results, error_vars, trace>>
    /\ UNCHANGED <<content_store, crawler_vars, req, timer, initial_results,
                   from_cache, llm_response, metadata, response>>

(* Lines 132-148: crawl ends without a return statement, so the caller gets *)
(* None whatever was crawled.                                               *)
any_seed_url_crawled == FALSE

(* Lines 132-148 and crawl_query.py 163-168: the final save, the return, and *)
(* the query for the results, which may raise.                               *)
CrawlReturn ==
    /\ pc = "final"
    /\ disk' = update_stores(disk, visited_urls, content_hashes, content_store)
    /\ from_cache' = IF ~any_seed_url_crawled THEN TRUE ELSE from_cache
    /\ \E raised \in MaybeMessage :
          IF raised # None
          THEN CrawlExcept(raised, content_store, trace)
          ELSE /\ results' = calculate_score(content_store, req.n)
               /\ crawl' = NoCrawl
               /\ pc' = "timer"
               /\ UNCHANGED <<error_vars, trace>>
    /\ UNCHANGED <<content_store, crawler_vars, req, timer, initial_results,
                   llm_response, metadata, response>>

(***************************************************************************)
(* crawl_query.py, after the crawl phase                                   *)
(***************************************************************************)
(* Lines 184-189 and evaluation_metrics.py 22-27: stop() sets the duration  *)
(* of the timer every request has started.                                  *)
StopTimer ==
    /\ pc = "timer"
    /\ timer' = [timer EXCEPT !.stopped = TRUE]
    /\ pc' = "llm"
    /\ UNCHANGED <<process_vars, crawler_vars, req, initial_results, results,
                   from_cache, llm_response, error_messages, process_status,
                   cache_error, crawl_error, llm_error, metadata, response,
                   crawl, trace>>

StatusAfterLlmErrorKept(status) == status

(* Line 202. *)
StatusAfterLlmError(status) == "partial_success"

(* Lines 191-202.  use_llm_response is first read here. *)
LlmResponsePhase ==
    /\ pc = "llm"
    /\ \E use_llm_response \in BOOLEAN, raised \in MaybeMessage :
          /\ ~(use_llm_response /\ results # <<>>) => raised = None
          /\ req' = [req EXCEPT !.use_llm_response = use_llm_response]
          /\ IF use_llm_response /\ results # <<>>
             THEN IF raised # None
                  THEN /\ error_messages' =
                             Append(error_messages, ErrorEntry("LLM error", raised))
                       /\ llm_error' = raised
                       /\ process_status' = StatusAfterLlmError(process_status)
                       /\ trace' = [trace EXCEPT !.failed = @ \cup {"llm"}]
                       /\ UNCHANGED llm_response
                  ELSE /\ llm_response' = "answer"
                       /\ UNCHANGED <<error_messages, llm_error, process_status, trace>>
             ELSE UNCHANGED <<llm_response, error_messages, llm_error, process_status,
                              trace>>
    /\ pc' = "metadata"
    /\ UNCHANGED <<process_vars, crawler_vars, timer, initial_results, results,
                   from_cache, cache_error, crawl_error, metadata, response, crawl>>

(* Lines 209-224: an error string is added under its key when it is truthy. *)
CollectedMetadata ==
    [keys |-> {"urls", "content_collected_total", "from_cache"}
                \cup (IF Truthy(cache_error) THEN {"cache_error"} ELSE {})
                \cup (IF Truthy(crawl_error) THEN {"crawl_error"} ELSE {})
                \cup (IF Truthy(llm_error) THEN {"llm_error"} ELSE {}),
     from_cache |-> from_cache,
     visited_total |-> Cardinality(visited_urls),
     content_collected_total |-> Len(content_store),
     cache_error |-> IF Truthy(cache_error) THEN cache_error ELSE None,
     crawl_error |-> IF Truthy(crawl_error) THEN crawl_error ELSE None,
     llm_error |-> IF Truthy(llm_error) THEN llm_error ELSE None]

(* Lines 204-229. *)
MetadataCollection ==
    /\ pc = "metadata"
    /\ \E raises \in BOOLEAN :
          IF raises
          THEN /\ error_messages' =
                     Append(error_messages, ErrorEntry("Metadata error", "failed"))
               /\ metadata' = [NoMetadata EXCEPT !.keys = {"metadata_collection_failed"}]
               /\ process_status' = "partial_success"
               /\ trace' = [trace EXCEPT !.failed = @ \cup {"metadata"}]
          ELSE /\ metadata' = CollectedMetadata
               /\ UNCHANGED <<error_messages, process_status, trace>>
    /\ pc' = "evaluation"
    /\ UNCHANGED <<process_vars, crawler_vars, req, timer, initial_results, results,
                   from_cache, llm_response, cache_error, crawl_error, llm_error,
                   response, crawl>>

(* Lines 231-265: evaluate() runs, and can raise, only when there are        *)
(* results; both branches read the time metrics.  Then the response is built. *)
EvaluationPhase ==
    /\ pc = "evaluation"
    /\ \E raises \in BOOLEAN :
          /\ results = <<>> => ~raises
          /\ error_messages' =
                IF raises
                THEN Append(error_messages, ErrorEntry("Evaluation error", "failed"))
                ELSE error_messages
          /\ process_status' = IF raises THEN "partial_success" ELSE process_status
          /\ trace' = IF raises THEN [trace EXCEPT !.failed = @ \cup {"evaluation"}]
                      ELSE trace
    /\ response' =
          [status |-> process_status', results |-> results, metadata |-> metadata,
           llm_response |-> IF llm_response # None THEN llm_response ELSE "N/A",
           time_metrics |-> get_time_metrics(timer),
           error |-> error_messages']
    /\ pc' = "done"
    /\ UNCHANGED <<process_vars, crawler_vars, req, timer, initial_results, results,
                   from_cache, llm_response, cache_error, crawl_error, llm_error,
                   metadata, crawl>>

(* The server process ends and a new one starts: the memory is gone, the    *)
(* state files stay.                                                        *)
Restart ==
    /\ pc \in {"idle", "done"}
    /\ content_store' = <<>>
    /\ visited_urls' = {}
    /\ content_hashes' = {}
    /\ cache_metrics' = [relevant |-> 0, total |-> 0]
    /\ depth_metrics' = NoDepthMetrics
    /\ pc' = "idle"
    /\ req' = NoRequest
    /\ timer' = NoTimer
    /\ initial_results' = <<>>
    /\ results' = <<>>
    /\ from_cache' = FALSE
    /\ llm_response' = None
    /\ error_messages' = <<>>
    /\ process_status' = "success"
    /\ cache_error' = None
    /\ crawl_error' = None
    /\ llm_error' = None
    /\ metadata' = NoMetadata
    /\ response' = NoResponse
    /\ crawl' = NoCrawl
    /\ trace' = NoTrace([Snapshot EXCEPT !.content_store = <<>>,
                                          !.visited_urls = {},
                                          !.content_hashes = {}])
    /\ UNCHANGED disk

Next ==
    \/ StartRequest
    \/ InitializationPhase
    \/ CrawlerInitialization
    \/ CacheCheckPhase
    \/ CrawlBegin
    \/ DepthLoop
    \/ BatchStart
    \/ ProcessUrl
    \/ WorkerStart
    \/ WorkerFinish
    \/ BatchEnd
    \/ DepthEnd
    \/ CrawlReturn
    \/ StopTimer
    \/ LlmResponsePhase
    \/ MetadataCollection
    \/ EvaluationPhase
    \/ Restart

Spec == Init /\ [][Next]_vars

(***************************************************************************)
(* The crawl phase of one request on its own, from the state in which the  *)
(* cache check has missed: on a machine without state files, or on one     *)
(* where an earlier request has crawled and saved page s.  The interpreter *)
(* keeps running: thread pools join their futures and requests.get has a   *)
(* timeout (crawler.py 252), so a step that can be taken is taken.         *)
(***************************************************************************)
SavedCrawlOfS ==
    [visited_urls |-> {"s"}, content_hashes |-> {ContentHash(MainContent("s"))},
     content_store |-> <<StoredDocument("s")>>]

InitCrawl ==
    \E n \in NumResultsInputs, threshold \in ThresholdInputs,
       before \in {[visited_urls |-> {}, content_hashes |-> {},
                    content_store |-> <<>>], SavedCrawlOfS} :
       LET saved == IF before.content_store = <<>> THEN EmptyDisk
                    ELSE save_state(before.visited_urls, before.content_hashes,
                                    before.content_store)
           found == calculate_score(before.content_store, n)
       IN  /\ ~CacheHit(found, n, threshold)
           /\ disk = saved
           /\ content_store = before.content_store
           /\ visited_urls = {}
           /\ content_hashes = {}
           /\ cache_metrics = [relevant |-> 0, total |-> 0]
           /\ depth_metrics = NoDepthMetrics
           /\ pc = "crawl"
           /\ req = [NoRequest EXCEPT !.n = n, !.relevance_threshold = threshold]
           /\ timer = [started |-> TRUE, stopped |-> FALSE]
           /\ initial_results = found
           /\ results = <<>>
           /\ from_cache = FALSE
           /\ llm_response = None
           /\ error_messages = <<>>
           /\ process_status = "success"
           /\ cache_error = None
           /\ crawl_error = None
           /\ llm_error = None
           /\ metadata = NoMetadata
           /\ response = NoResponse
           /\ crawl = NoCrawl
           /\ trace = [NoTrace([visited_urls |-> before.visited_urls,
                                 content_hashes |-> before.content_hashes,
                                 content_store |-> before.content_store,
                                 disk |-> saved])
                          EXCEPT !.cache_checked = TRUE]

NextCrawl ==
    \/ CrawlBegin
    \/ DepthLoop
    \/ BatchStart
    \/ ProcessUrl
    \/ WorkerStart
    \/ WorkerFinish
    \/ BatchEnd
    \/ DepthEnd
    \/ CrawlReturn

SpecCrawl == InitCrawl /\ [][NextCrawl]_vars /\ WF_vars(NextCrawl)

(***************************************************************************)
(* The crawl phase when the engines rank a redirecting URL: r alone, or r  *)
(* before a.  The crawl starts as in SpecCrawl, after a first request or   *)
(* after a crawl that visited and stored s.                                *)
(***************************************************************************)
RedirectRankings == {<<"r">>, <<"r", "a">>}

CrawlBeginRedirect == CrawlBeginOf(RedirectRankings)

NextRedirect ==
    \/ CrawlBeginRedirect
    \/ DepthLoop
    \/ BatchStart
    \/ ProcessUrl
    \/ WorkerStart
    \/ WorkerFinish
    \/ BatchEnd
    \/ DepthEnd
    \/ CrawlReturn

SpecRedirect == InitCrawl /\ [][NextRedirect]_vars

request_vars ==
    <<cache_metrics, depth_metrics, req, timer, initial_results, results, from_cache, llm_response,
      error_messages, process_status, cache_error, crawl_error, llm_error,
      metadata, response, crawl, trace>>

(* The state of a process that has served no request, at the label given,   *)
(* with the store given.                                                    *)
InitAt(label, store) ==
    /\ disk = EmptyDisk
    /\ content_store = store
    /\ visited_urls = {}
    /\ content_hashes = {}
    /\ cache_metrics = [relevant |-> 0, total |-> 0]
    /\ depth_metrics = NoDepthMetrics
    /\ pc = label
    /\ req = NoRequest
    /\ timer = NoTimer
    /\ initial_results = <<>>
    /\ results = <<>>
    /\ from_cache = FALSE
    /\ llm_response = None
    /\ error_messages = <<>>
    /\ process_status = "success"
    /\ cache_error = None
    /\ crawl_error = None
    /\ llm_error = None
    /\ metadata = NoMetadata
    /\ response = NoResponse
    /\ crawl = NoCrawl
    /\ trace = NoTrace(Snapshot)

(***************************************************************************)
(* The persistence of the crawl state on its own: processes that load the  *)
(* three files, admit pages and save, where a save may fail at any file.   *)
(* pc names the operation that ran last.                                   *)
(***************************************************************************)
InitPersistence == InitAt("fresh", <<>>)

(* store/persistence.py 54-104: load_state replaces the three values by    *)
(* what the files hold; a process that has just started has nothing else.  *)
LoadState ==
    /\ pc \in {"fresh", "loaded", "admitted", "saved", "save_failed"}
    /\ visited_urls' = LoadedVisited(disk)
    /\ content_hashes' = LoadedHashes(disk)
    /\ content_store' = LoadedStore(disk)
    /\ pc' = "loaded"
    /\ UNCHANGED <<disk, request_vars>>

(* crawler.py 301-340: _process_single_url for a URL not visited yet. *)
ProcessSingleUrl ==
    /\ pc \in {"loaded", "admitted", "saved", "save_failed"}
    /\ Len(content_store) < MaxStoreLen
    /\ \E url \in {u \in URLs \ visited_urls : PageScore(u) >= url_relevance_threshold} :
          LET admitted == should_process_content(MainContent(url), content_hashes)
          IN  /\ content_hashes' = IF admitted
                                   THEN content_hashes \cup {ContentHash(MainContent(url))}
                                   ELSE content_hashes
              /\ content_store' = IF admitted
                                  THEN StoreDocument(content_store, StoredDocument(url))
                                  ELSE content_store
              /\ visited_urls' = MarkVisited(visited_urls, url)
    /\ pc' = "admitted"
    /\ UNCHANGED <<disk, request_vars>>

(* store/persistence.py 22-52: save_state with every write succeeding. *)
SaveState ==
    /\ pc \in {"loaded", "admitted", "saved", "save_failed"}
    /\ disk' = save_state(visited_urls, content_hashes, content_store)
    /\ pc' = "saved"
    /\ UNCHANGED <<content_store, visited_urls, content_hashes, request_vars>>

(* store/persistence.py 22-52: save_state with the write of one file        *)
(* raising; the caller is not told.                                         *)
SaveStateFails ==
    /\ pc \in {"loaded", "admitted", "saved", "save_failed"}
    /\ \E failed_at \in StateFiles, truncated \in BOOLEAN :
          disk' = save_state_failing(disk, visited_urls, content_hashes,
                                     content_store, failed_at, truncated)
    /\ pc' = "save_failed"
    /\ UNCHANGED <<content_store, visited_urls, content_hashes, request_vars>>

(* The process ends; the files stay. *)
ProcessExit ==
    /\ pc \in {"loaded", "admitted", "saved", "save_failed"}
    /\ content_store' = <<>>
    /\ visited_urls' = {}
    /\ content_hashes' = {}
    /\ pc' = "fresh"
    /\ UNCHANGED <<disk, request_vars>>

NextPersistence ==
    \/ LoadState
    \/ ProcessSingleUrl
    \/ SaveState
    \/ SaveStateFails
    \/ ProcessExit

SpecPersistence == InitPersistence /\ [][NextPersistence]_vars

(***************************************************************************)
(* The scorer and the depth threshold on their own, as functions of their  *)
(* inputs.  The stores are those of up to three admitted pages; s and t    *)
(* have equal heuristic and cosine scores.                                 *)
(***************************************************************************)
ScorerDocuments ==
    {StoredDocument("s"), StoredDocument("a"),
     [url |-> "t", main_content |-> "B3", heuristic_score |-> 40]}

ScorerStores == UNION {Orderings(S) : S \in SUBSET ScorerDocuments}

ScorerKs == (-1)..(MaxNumResults + 1)

BaseThresholdInputs == {0, 20, 40, 100}

MaxDepthChecked == 6

InitScorer == \E store \in ScorerStores : InitAt("scorer", store)

(* store/scorer.py 14-90: calculate_score(query, k) on the store. *)
QueryStore ==
    /\ pc \in {"scorer", "queried", "threshold"}
    /\ \E k \in ScorerKs :
          /\ req' = [req EXCEPT !.n = k]
          /\ results' = calculate_score(content_store, k)
          /\ content_store' = StoreAfterQuery(content_store, k)
    /\ pc' = "queried"
    /\ UNCHANGED <<disk, crawler_vars, timer, initial_results, from_cache,
                   llm_response, error_vars, metadata, response, crawl, trace>>

(* crawler.py 84-88: the threshold the scheduler uses at a depth. *)
ThresholdAtDepth ==
    /\ pc \in {"scorer", "queried", "threshold"}
    /\ \E base \in BaseThresholdInputs, depth \in 0..MaxDepthChecked :
          /\ req' = [req EXCEPT !.relevance_threshold = base]
          /\ crawl' = [crawl EXCEPT !.current_depth = depth,
                                    !.relevance_threshold = DepthThreshold(base, depth)]
    /\ pc' = "threshold"
    /\ UNCHANGED <<process_vars, crawler_vars, timer, initial_results, results,
                   from_cache, llm_response, error_vars, metadata, response, trace>>

NextScorer ==
    \/ QueryStore
    \/ ThresholdAtDepth

SpecScorer == InitScorer /\ [][NextScorer]_vars

(***************************************************************************)
(* evaluation_metrics.py: HarvestRatio on its own.  A meter as constructed *)
(* takes calls of record_page and record_cache_access in any order; trace  *)
(* holds the arguments of the last call.  Ratios are percentages.          *)
(***************************************************************************)
MaxPagesRecorded == 3

EmptyBucket == [relevant |-> 0, total |-> 0]

BucketAt(metrics, depth) ==
    IF depth \in DOMAIN metrics THEN metrics[depth] ELSE EmptyBucket

record_page_unprocessed_relevant(metrics, depth, page_score, depth_threshold, is_processed) ==
    LET bucket == BucketAt(metrics, depth)
        counted == [total |-> bucket.total + (IF is_processed THEN 1 ELSE 0),
                    relevant |-> bucket.relevant
                                   + (IF page_score >= depth_threshold THEN 1 ELSE 0)]
    IN  [d \in DOMAIN metrics \cup {depth} |->
            IF d = depth THEN counted ELSE metrics[d]]

record_page_above_threshold_only(metrics, depth, page_score, depth_threshold, is_processed) ==
    LET bucket == BucketAt(metrics, depth)
        counted == IF is_processed
                   THEN [total |-> bucket.total + 1,
                         relevant |-> bucket.relevant
                                    + (IF page_score > depth_threshold THEN 1 ELSE 0)]
                   ELSE bucket
    IN  [d \in DOMAIN metrics \cup {depth} |->
            IF d = depth THEN counted ELSE metrics[d]]

(* Lines 53-74: record_page.  The bucket of the depth is created when it   *)
(* is missing; a processed page counts in total, and in relevant when its  *)
(* score reaches the threshold passed in.                                  *)
record_page(metrics, depth, page_score, depth_threshold, is_processed) ==
    LET bucket == BucketAt(metrics, depth)
        counted == IF is_processed
                   THEN [total |-> bucket.total + 1,
                         relevant |-> bucket.relevant
                                    + (IF page_score >= depth_threshold THEN 1 ELSE 0)]
                   ELSE bucket
    IN  [d \in DOMAIN metrics \cup {depth} |->
            IF d = depth THEN counted ELSE metrics[d]]

RECURSIVE SumOfBuckets(_, _, _)
(* sum(metrics[field] for metrics in self.depth_metrics.values()) *)
SumOfBuckets(metrics, depths, field) ==
    IF depths = {} THEN 0
    ELSE LET d == CHOOSE x \in depths : TRUE
         IN  metrics[d][field] + SumOfBuckets(metrics, depths \ {d}, field)

(* Lines 93-125: relevant / total, and 0.0 when no page was counted. *)
HarvestRatioOf(relevant, total) ==
    IF total = 0 THEN 0 ELSE (100 * relevant) \div total

(* Lines 127-157: get_metrics. *)
get_metrics(depth_buckets, cache_bucket) ==
    LET crawled_relevant == SumOfBuckets(depth_buckets, DOMAIN depth_buckets, "relevant")
        crawled_total == SumOfBuckets(depth_buckets, DOMAIN depth_buckets, "total")
    IN  [per_depth |->
            [d \in DOMAIN depth_buckets |->
                [relevant_pages |-> depth_buckets[d].relevant,
                 total_pages |-> depth_buckets[d].total,
                 harvest_ratio |-> HarvestRatioOf(depth_buckets[d].relevant,
                                                  depth_buckets[d].total)]],
         cache |->
            [relevant_pages |-> cache_bucket.relevant,
             total_pages |-> cache_bucket.total,
             harvest_ratio |-> HarvestRatioOf(cache_bucket.relevant,
                                              cache_bucket.total)],
         cumulative |->
            [relevant_pages |-> crawled_relevant,
             total_pages |-> crawled_total,
             harvest_ratio |-> HarvestRatioOf(crawled_relevant, crawled_total)],
         overall |->
            [relevant_pages |-> crawled_relevant + cache_bucket.relevant,
             total_pages |-> crawled_total + cache_bucket.total,
             harvest_ratio |-> HarvestRatioOf(crawled_relevant + cache_bucket.relevant,
                                              crawled_total + cache_bucket.total)]]

(* The scores of the web's pages and the thresholds the scheduler has at   *)
(* the depths of a crawl.                                                  *)
MeterScores == {PageScore(u) : u \in URLs}

MeterThresholds ==
    {DepthThreshold(base, depth) : base \in ThresholdInputs, depth \in MaxDepthInputs}

(* The result lists a query can give on the stores of SpecScorer. *)
MeterResults ==
    {calculate_score(store, k) : store \in ScorerStores, k \in NumResultsInputs}

PagesRecorded ==
    SumOfBuckets(depth_metrics, DOMAIN depth_metrics, "total") + cache_metrics.total

InitHarvest ==
    /\ disk = EmptyDisk
    /\ content_store = <<>>
    /\ visited_urls = {}
    /\ content_hashes = {}
    /\ cache_metrics = EmptyBucket
    /\ depth_metrics = NoDepthMetrics
    /\ pc = "meter"
    /\ req = NoRequest
    /\ timer = NoTimer
    /\ initial_results = <<>>
    /\ results = <<>>
    /\ from_cache = FALSE
    /\ llm_response = None
    /\ error_messages = <<>>
    /\ process_status = "success"
    /\ cache_error = None
    /\ crawl_error = None
    /\ llm_error = None
    /\ metadata = NoMetadata
    /\ response = NoResponse
    /\ crawl = NoCrawl
    /\ trace = [call |-> "__init__"]

(* A call of record_page. *)
RecordPage ==
    /\ PagesRecorded < MaxPagesRecorded
    /\ \E depth \in MaxDepthInputs, page_score \in MeterScores,
          depth_threshold \in MeterThresholds, is_processed \in BOOLEAN :
          /\ depth_metrics' = record_page(depth_metrics, depth, page_score,
                                          depth_threshold, is_processed)
          /\ trace' = [call |-> "record_page", depth |-> depth,
                       page_score |-> page_score,
                       depth_threshold |-> depth_threshold,
                       is_processed |-> is_processed]
    /\ UNCHANGED <<process_vars, visited_urls, content_hashes, cache_metrics, pc, req,
                   timer, initial_results, results, from_cache, llm_response,
                   error_vars, metadata, response, crawl>>

(* A call of record_cache_access with the results of a query. *)
RecordCacheAccess ==
    /\ PagesRecorded < MaxPagesRecorded
    /\ \E found \in MeterResults, base \in ThresholdInputs :
          /\ cache_metrics' = record_cache_access(cache_metrics, found, base)
          /\ trace' = [call |-> "record_cache_access", results |-> found,
                       base_relevance_threshold |-> base]
    /\ UNCHANGED <<process_vars, visited_urls, content_hashes, depth_metrics, pc, req,
                   timer, initial_results, results, from_cache, llm_response,
                   error_vars, metadata, response, crawl>>

NextHarvest ==
    \/ RecordPage
    \/ RecordCacheAccess

SpecHarvest == InitHarvest /\ [][NextHarvest]_vars

(***************************************************************************)
(* Properties of perform_crawl_and_query.  trace is the history of the     *)
(* request in progress: how often crawler.crawl was called, which phases   *)
(* raised, and the state the request started from.                         *)
(***************************************************************************)
Phases == {"cache", "crawl", "llm", "metadata", "evaluation"}

(* The request is past its crawl phase (and did not return early). *)
PastCrawlPhase ==
    \/ pc \in {"timer", "llm", "metadata", "evaluation"}
    \/ pc = "done" /\ response.status # "error"

(* The cache check's query returned at least n items, all at the threshold. *)
QueryAnswered ==
    /\ trace.cache_checked
    /\ ~req.force_crawl
    /\ Len(initial_results) >= req.n
    /\ \A i \in DOMAIN initial_results :
          initial_results[i].weighted_score >= req.relevance_threshold

C2_SchedulerInvokedOnce ==
    /\ trace.crawl_calls <= 1
    /\ PastCrawlPhase =>
          /\ req.force_crawl => trace.crawl_calls = 1 /\ ~trace.cache_checked
          /\ "cache" \in trace.failed => trace.crawl_calls = 1
          /\ (trace.cache_checked /\ ~(QueryAnswered /\ initial_results # <<>>))
                => trace.crawl_calls = 1
          /\ (trace.cache_checked /\ trace.before.content_store = <<>>)
                => initial_results = <<>> /\ trace.crawl_calls = 1

C2_Witness ==
    /\ pc = "done"
    /\ req.force_crawl
    /\ trace.before.content_store # <<>>
    /\ trace.crawl_calls = 1

(* C3 as stated: a request without force_crawl that a process with an empty *)
(* memory receives, while the saved store holds num_results documents at    *)
(* the threshold, is answered from the saved store without a call of        *)
(* crawler.crawl.                                                           *)
C3_RestartAnswersFromCache ==
    (/\ PastCrawlPhase
     /\ ~req.force_crawl
     /\ "cache" \notin trace.failed
     /\ trace.before.content_store = <<>>
     /\ LET found == calculate_score(LoadedStore(trace.before.disk), req.n)
        IN  /\ found # <<>>
            /\ Len(found) >= req.n
            /\ \A i \in DOMAIN found :
                  found[i].weighted_score >= req.relevance_threshold)
        => /\ trace.crawl_calls = 0
           /\ from_cache
           /\ results = calculate_score(LoadedStore(trace.before.disk), req.n)

(* The label an error of the phase gets in the response's error list. *)
ErrorLabel(phase) ==
    CASE phase = "cache" -> "Cache check error"
      [] phase = "crawl" -> "Crawl error"
      [] phase = "llm" -> "LLM error"
      [] phase = "metadata" -> "Metadata error"
      [] phase = "evaluation" -> "Evaluation error"

(* The phase that follows a phase that raised. *)
PhaseAfterFailure(phase) ==
    CASE phase = "cache" -> "crawl"
      [] phase = "crawl" -> "timer"
      [] phase = "llm" -> "metadata"
      [] phase = "metadata" -> "evaluation"
      [] phase = "evaluation" -> "done"

StatusMatchesFailures ==
    /\ pc \in {"crawl", "loop", "batch", "process", "depth_end", "final"}
          \cup {"timer", "llm", "metadata", "evaluation"} =>
          (process_status = "partial_success" <=> trace.failed # {})
    /\ (pc = "done" /\ response.status # "error") =>
          /\ trace.failed \subseteq Phases
          /\ response.status = "partial_success" <=> trace.failed # {}
          /\ response.status = "success" <=> trace.failed = {}

FailureGoesOn ==
    /\ \A phase \in Phases :
          (phase \in trace'.failed /\ phase \notin trace.failed)
              => pc' = PhaseAfterFailure(phase)
    /\ (process_status = "partial_success" /\ pc \notin {"idle", "done"})
          => process_status' = "partial_success"
    /\ (pc = "evaluation") => (pc' = "done" /\ response'.status = process_status')

(* C4: whichever of the cache check, crawl, LLM, metadata and evaluation    *)
(* phases raise, the request goes on with the phase after the one that      *)
(* raised and ends with a response; the status is partial_success when at   *)
(* least one of them raised and success otherwise, and a step of a request  *)
(* never takes partial_success back.                                        *)
C4_PartialFailureStatus == []StatusMatchesFailures /\ [][FailureGoesOn]_vars

C4_Witness ==
    /\ pc = "done"
    /\ trace.failed = Phases
    /\ response.status = "partial_success"
    /\ response.results # <<>>

(* C5 as stated: every error raised in the cache check, crawl, LLM,         *)
(* metadata or evaluation phase is in the response's metadata under         *)
(* <phase>_error and in the response's error list.                          *)
C5_EveryErrorInMetadataAndList ==
    (pc = "done" /\ response.status # "error") =>
        \A phase \in trace.failed :
            /\ (IF phase = "cache" THEN "cache_error"
                ELSE IF phase = "crawl" THEN "crawl_error"
                ELSE IF phase = "llm" THEN "llm_error"
                ELSE IF phase = "metadata" THEN "metadata_error"
                ELSE "evaluation_error") \in response.metadata.keys
            /\ \E i \in DOMAIN response.error :
                  response.error[i][1] = ErrorLabel(phase)

(* C6 as stated: when the seed provider raises in the crawl phase on an     *)
(* empty store, the response has status partial_success, no results, a      *)
(* crawl_error in its metadata and from_cache false.                        *)
C6_SeedProviderRaises ==
    (/\ pc = "done"
     /\ trace.seeds_raised
     /\ trace.before.content_store = <<>>
     /\ LoadedStore(trace.before.disk) = <<>>
     /\ "metadata" \notin trace.failed)
        => /\ response.status = "partial_success"
           /\ response.results = <<>>
           /\ "crawl_error" \in response.metadata.keys
           /\ response.metadata.crawl_error # None
           /\ ~response.metadata.from_cache

(* C7 as stated: after a crawl phase that did not raise, from_cache is      *)
(* false when the scheduler visited a URL in this request.                  *)
C7_FromCacheOnlyWithoutWork ==
    (/\ pc = "done"
     /\ trace.crawl_calls = 1
     /\ "crawl" \notin trace.failed
     /\ "metadata" \notin trace.failed
     /\ visited_urls # LoadedVisited(trace.before.disk))
        => ~from_cache /\ ~response.metadata.from_cache

(* C8 as stated: on every return path the timer that was started has been   *)
(* stopped before the response's time metrics are read.                     *)
C8_TimerStoppedOnEveryReturn ==
    (pc = "done" /\ timer.started) => response.time_metrics = "measured"

RejectedUnchanged ==
    /\ (trace.failed \cap {"initialization", "crawler_initialization"} # {})
          => pc = "done" /\ response.status = "error"
    /\ (pc = "done" /\ response.status = "error")
          => /\ response.results = <<>>
             /\ Snapshot = trace.before

(* C9: a request whose initialization or crawler construction fails returns *)
(* at once with status error and no results, and the visited set, the hash  *)
(* set, the content store and the state files are as the request found them. *)
C9_RejectedRequestChangesNothing == RejectedUnchanged

C9_Witness ==
    /\ pc = "done"
    /\ response.status = "error"
    /\ "crawler_initialization" \in trace.failed
    /\ trace.before.content_store # <<>>
    /\ trace.before.disk.content_store.exists

EmergencyQueryReturnsStored ==
    (PastCrawlPhase /\ "crawl" \in trace.failed /\ ~trace.emergency_raised)
        => /\ results = calculate_score(content_store, req.n)
           /\ (content_store # <<>> /\ req.n >= 1) =>
                 /\ results # <<>>
                 /\ \A i \in DOMAIN results :
                       \E j \in DOMAIN content_store :
                          content_store[j].url = results[i].url

LaterPhasesKeepResults ==
    /\ pc \in {"timer", "llm", "metadata", "evaluation"} => results' = results
    /\ pc = "evaluation" => response'.results = results

C11_NoDuplicateDocuments ==
    /\ \A i, j \in DOMAIN content_store :
          i # j => /\ ContentHash(content_store[i].main_content)
                        # ContentHash(content_store[j].main_content)
                   /\ content_store[i].url # content_store[j].url
    /\ (/\ pc = "process"
        /\ crawl.queue = <<>> /\ crawl.in_flight = {}
        /\ crawl.current_depth = 0
        /\ crawl.batch_queue = <<"a", "b">>
        /\ ~crawl.batch_raised
        /\ crawl.batch_store = <<>> /\ crawl.batch_hashes = {}
        /\ LoadedVisited(trace.before.disk) = {})
          => /\ Len(content_store) = 1
             /\ Cardinality(visited_urls) = 2
             /\ Cardinality(content_hashes) = 1

SetsOnlyGrow ==
    pc \notin {"idle", "done", "construct"}
        => /\ visited_urls \subseteq visited_urls'
           /\ content_hashes \subseteq content_hashes'

(* C13: from the construction of the request's crawler to the response, no  *)
(* step removes an element from the visited-URL set or from the             *)
(* content-hash set: load_state, the per-URL pipeline and the saves only    *)
(* add.                                                                     *)
C13_SetsOnlyGrow == [][SetsOnlyGrow]_vars

C13_Witness ==
    /\ pc = "final"
    /\ LoadedVisited(trace.before.disk) # {}
    /\ LoadedHashes(trace.before.disk) # {}
    /\ LoadedVisited(trace.before.disk) \subseteq visited_urls
    /\ LoadedVisited(trace.before.disk) # visited_urls
    /\ LoadedHashes(trace.before.disk) \subseteq content_hashes
    /\ LoadedHashes(trace.before.disk) # content_hashes

(* C14 as stated: once the barrier of a batch has been passed, every URL    *)
(* handed to a worker of the batch is in visited_urls, whatever the worker  *)
(* did with it.                                                             *)
C14_BatchUrlsVisited ==
    (\/ pc \in {"batch", "depth_end"}
     \/ pc = "process" /\ crawl.queue = <<>> /\ crawl.in_flight = {})
        => crawl.batch_urls \subseteq visited_urls

(* C15 as stated: when the scheduler returns, every document of the store   *)
(* was in the store the scheduler loaded or has a heuristic_score at or     *)
(* above the threshold of the depth at which it was admitted.               *)
C15_AdmittedAtDepthThreshold ==
    pc = "final" =>
        \A i \in DOMAIN content_store :
            \/ \E j \in DOMAIN LoadedStore(trace.before.disk) :
                  LoadedStore(trace.before.disk)[j] = content_store[i]
            \/ \E p \in crawl.admitted :
                  /\ p[1] = content_store[i].url
                  /\ content_store[i].heuristic_score >= p[2]

(* C19 as stated: after a batch the scheduler stops early exactly when the  *)
(* query with k = num_results returns at least num_results items, all at or *)
(* above the threshold of the depth.                                        *)
C19_EarlyStopExactlyWhenEnough ==
    LET found == calculate_score(content_store, crawl_num_results)
        enough == /\ Len(found) >= crawl_num_results
                  /\ \A i \in DOMAIN found :
                        found[i].weighted_score >= crawl.relevance_threshold
    IN  /\ (pc = "depth_end" /\ crawl.found_relevant_results) => enough
        /\ (pc = "depth_end" /\ ~crawl.found_relevant_results
              /\ crawl.batch_urls # {}) => ~enough

(* The store a batch leaves when its queue is processed by one worker, in   *)
(* the order of the queue, without an error.                                *)
RECURSIVE SequentialStore(_, _, _)
SequentialStore(queue, hashes, store) ==
    IF queue = <<>> THEN store
    ELSE LET url == Head(queue)
             admitted == should_process_content(MainContent(url), hashes)
         IN  SequentialStore(Tail(queue),
                             IF admitted
                             THEN hashes \cup {ContentHash(MainContent(url))}
                             ELSE hashes,
                             IF admitted THEN Append(store, StoredDocument(url))
                             ELSE store)

NoWorkerOutsideBatch ==
    pc \in {"loop", "batch", "depth_end", "final"}
        => crawl.queue = <<>> /\ crawl.in_flight = {}

HashesCoverStore(store, hashes) ==
    \A i \in DOMAIN store : ContentHash(store[i].main_content) \in hashes

(* C12: after load_state, after each admission and after each snapshot the *)
(* hash of every document body in the store is in the content-hash set,    *)
(* also when only some of the three state files are present; the same      *)
(* holds of what the files on disk would restore.                          *)
C12_HashesCoverStore ==
    /\ HashesCoverStore(content_store, content_hashes)
    /\ HashesCoverStore(LoadedStore(disk), LoadedHashes(disk))

(* C16: the threshold the scheduler uses at depth d is base - d*step where *)
(* that is at least min_relevance and min_relevance otherwise; so it is    *)
(* never below min_relevance, and a deeper level of the same request never *)
(* has a higher one.                                                       *)
ThresholdIsFlooredDifference ==
    pc = "threshold"
        => LET difference == req.relevance_threshold
                                 - crawl.current_depth * depth_relevance_step
           IN  /\ crawl.relevance_threshold >= minimum_relevance_threshold
               /\ difference >= minimum_relevance_threshold
                      => crawl.relevance_threshold = difference
               /\ difference < minimum_relevance_threshold
                      => crawl.relevance_threshold = minimum_relevance_threshold

DeeperIsNotHigher ==
    (/\ pc = "threshold"
     /\ pc' = "threshold"
     /\ req'.relevance_threshold = req.relevance_threshold
     /\ crawl'.current_depth >= crawl.current_depth)
        => crawl'.relevance_threshold <= crawl.relevance_threshold

C16_DepthThreshold == []ThresholdIsFlooredDifference /\ [][DeeperIsNotHigher]_vars

C16_Witness ==
    /\ pc = "threshold"
    /\ crawl.current_depth > 0
    /\ req.relevance_threshold > minimum_relevance_threshold
    /\ req.relevance_threshold - crawl.current_depth * depth_relevance_step
           < minimum_relevance_threshold
    /\ crawl.relevance_threshold = minimum_relevance_threshold

StoreIndex(store, url) == CHOOSE i \in DOMAIN store : store[i].url = url

C18_TopKStable ==
    pc = "queried"
        => LET store == content_store
               k == req.n
               expected == IF \/ store = <<>>
                              \/ \A i \in DOMAIN store : store[i].main_content = ""
                              \/ k <= 0
                           THEN 0
                           ELSE Min(k, Len(store))
               chosen == {StoreIndex(store, results[p].url) : p \in DOMAIN results}
           IN  /\ Len(results) = expected
               /\ \A p \in DOMAIN results :
                     /\ \E i \in DOMAIN store : store[i].url = results[p].url
                     /\ results[p].weighted_score
                            = StoreWeighted(store, StoreIndex(store, results[p].url))
               /\ \A p, q \in DOMAIN results :
                     p < q =>
                        \/ results[p].weighted_score > results[q].weighted_score
                        \/ /\ results[p].weighted_score = results[q].weighted_score
                           /\ StoreIndex(store, results[p].url)
                                  < StoreIndex(store, results[q].url)
               /\ \A i \in DOMAIN store \ chosen : \A j \in chosen :
                     \/ StoreWeighted(store, j) > StoreWeighted(store, i)
                     \/ /\ StoreWeighted(store, j) = StoreWeighted(store, i)
                        /\ j < i

(***************************************************************************)
(* Claims about workers, depths, the frontier and the snapshots            *)
(***************************************************************************)
WorkersRunning ==
    pc = "process" /\ crawl.current_depth > 0
        /\ ~BarrierPassed(crawl.queue, crawl.in_flight)

(* C21: while workers of a batch run, before the barrier, the visited set, *)
(* the content-hash set and the content store do not change: only the      *)
(* scheduler changes them, after the workers have joined.                  *)
SharedStateUntouched ==
    WorkersRunning => UNCHANGED <<visited_urls, content_hashes, content_store>>

C21_WorkersMutateNothing == [][SharedStateUntouched]_vars

(* C22: the depth goes up only when no worker of the depth is queued or in *)
(* flight, and a worker is in flight only at the depth it was dispatched   *)
(* for.                                                                    *)
DepthStepAfterWorkers ==
    /\ crawl'.current_depth # crawl.current_depth
           => /\ crawl.queue = <<>> /\ crawl.in_flight = {}
              /\ crawl'.in_flight = {}
    /\ crawl'.in_flight \ crawl.in_flight # {}
           => crawl'.current_depth = crawl.current_depth /\ pc = "process"

C22_DepthsDoNotOverlap == [][DepthStepAfterWorkers]_vars

C22_Witness ==
    /\ pc = "process"
    /\ crawl.current_depth = 1
    /\ crawl.in_flight # {}
    /\ crawl.queue # <<>>

(* C23: a crawl that has started comes to its end; levels are processed   *)
(* only at depths 0..max_depth, so at most max_depth + 1 of them, and URLs *)
(* are requested only from the frontier of such a level: with max_depth 0  *)
(* from the seeds alone.                                                   *)
CrawlLabels == {"crawl", "loop", "batch", "process", "depth_end", "final"}

LevelsWithinBound ==
    pc \in {"batch", "process", "depth_end"}
        => /\ crawl.current_depth <= crawl.max_depth
           /\ crawl.current_depth = 0
                  => ToSet(crawl.urls_to_crawl) = crawl.all_discovered_urls

RequestsFromFrontier ==
    crawl'.requested \ crawl.requested # {}
        => /\ crawl.current_depth <= crawl.max_depth
           /\ crawl'.requested \subseteq crawl.requested \cup ToSet(crawl.urls_to_crawl)

C23_CrawlTerminates ==
    /\ []LevelsWithinBound
    /\ [][RequestsFromFrontier]_vars
    /\ (pc \in CrawlLabels) ~> (pc \notin CrawlLabels)

C23_Witness ==
    /\ pc = "final"
    /\ crawl.max_depth = 0
    /\ crawl.current_depth = 1
    /\ crawl.urls_to_crawl # <<>>
    /\ crawl.requested = {"s"}
    /\ "s" \in ToSet(PageLinks("a"))

(* C24: within one request no URL is requested from the web a second time. *)
C24_NoUrlFetchedTwice == crawl.requested_again = {}

(* C25: every URL of the frontier of the next depth was discovered at this *)
(* depth, is not visited, was never queued before, passes the keyword      *)
(* filter for URLs and is recorded among the discovered URLs.              *)
FrontierStep ==
    crawl'.current_depth = crawl.current_depth + 1
        => \A u \in ToSet(crawl'.urls_to_crawl) :
              /\ u \in ToSet(crawl.next_urls)
              /\ u \notin visited_urls
              /\ u \notin crawl.all_discovered_urls
              /\ u \in crawl'.all_discovered_urls
              /\ url_contains_keywords(u)

C25_FrontierFiltered == [][FrontierStep]_vars

(* C26: when the workers of a batch have joined and none raised, the links *)
(* of every page fetched in the batch are in the list for the next depth,  *)
(* unless the link was visited already.                                    *)
C26_LinksOfEveryFetchedPage ==
    (/\ pc = "process"
     /\ BarrierPassed(crawl.queue, crawl.in_flight)
     /\ ~crawl.batch_raised)
        => \A u \in crawl.batch_fetched :
              \A l \in ToSet(PageLinks(u)) :
                  l \in visited_urls \/ l \in ToSet(crawl.next_urls)

(* C27: when the scheduler has returned, by whichever exit, the files on   *)
(* disk hold the final visited set, content-hash set and content store,    *)
(* also when the store is empty.                                           *)
C27_SnapshotAtEveryExit ==
    (pc = "timer" /\ trace.crawl_calls > 0 /\ crawl_error = None)
        => /\ disk.visited_urls.exists
           /\ disk.content_hashes.exists
           /\ disk.content_store.exists
           /\ LoadedVisited(disk) = visited_urls
           /\ LoadedHashes(disk) = content_hashes
           /\ LoadedStore(disk) = content_store

(* C28: when load_state fails on one of the three files, the process has   *)
(* an empty visited set, an empty hash set and an empty store, whatever    *)
(* the other files hold.                                                   *)
C28_FailedLoadGivesEmptyState ==
    (pc = "loaded" /\ LoadFails(disk))
        => visited_urls = {} /\ content_hashes = {} /\ content_store = <<>>

C28_Witness ==
    /\ pc = "loaded"
    /\ LoadFails(disk)
    /\ disk.visited_urls.exists
    /\ disk.visited_urls.data.pickle
    /\ disk.visited_urls.data.value # {}

(* C29: whatever happens during a save, no state file is left truncated,   *)
(* so load_state never fails on a file that save_state wrote.              *)
C29_NoTruncatedFile ==
    /\ \A f \in StateFiles : disk[f].exists => disk[f].data.pickle
    /\ ~LoadFails(disk)

(* C30: a query leaves the store as it was; stored documents have no score *)
(* fields but the heuristic score they were stored with, and the records   *)
(* returned are the stored documents with the three scores added.          *)
DocumentFields == {"url", "main_content", "heuristic_score"}

QueryLeavesStore == pc' = "queried" => content_store' = content_store

StoredDocumentsUnscored ==
    \A i \in DOMAIN content_store :
        /\ DOMAIN content_store[i] = DocumentFields
        /\ content_store[i] \in ScorerDocuments

ResultsAreCopies ==
    pc = "queried"
        => \A p \in DOMAIN results :
              /\ DOMAIN results[p] =
                     DocumentFields \cup {"cosine_similarity_score", "weighted_score"}
              /\ \E i \in DOMAIN content_store :
                     \A field \in DocumentFields :
                         results[p][field] = content_store[i][field]

C37_FromCacheInMetadata ==
    (pc = "done" /\ response.status \in {"success", "partial_success"})
        => "from_cache" \in response.metadata.keys

(* C32: every cache hit adds the number of returned results to the cache   *)
(* bucket's total and the number of results with weighted_score >=         *)
(* base_threshold to its relevant count; on a miss, on a raising query and *)
(* when force_crawl is set the cache path leaves the meter alone.          *)
RelevantAmong(found, threshold) ==
    Cardinality({i \in DOMAIN found : found[i].weighted_score >= threshold})

C32_CacheBucketOnlyOnHit ==
    [][pc = "cache" =>
         IF from_cache'
         THEN /\ ~req'.force_crawl
              /\ cache_metrics'.total = cache_metrics.total + Len(results')
              /\ cache_metrics'.relevant =
                    cache_metrics.relevant
                      + RelevantAmong(results', req'.relevance_threshold)
         ELSE cache_metrics' = cache_metrics]_vars

C32_Witness ==
    /\ pc = "timer"
    /\ from_cache
    /\ trace.crawl_calls = 0
    /\ Len(results) = 2
    /\ cache_metrics = [total |-> 2, relevant |-> 2]

(* C36: a request answered on the cache path leaves the visited set, the   *)
(* content-hash set, the content store and the three state files as they   *)
(* were before the request; of the harvest meter only the cache bucket     *)
(* changes, and only in the cache check.  The store and the files are      *)
(* compared with their values when the request arrived, the two sets of    *)
(* the request's crawler with their values when the cache check began.     *)
OnCachePath ==
    /\ pc \in {"timer", "llm", "metadata", "evaluation", "done"}
    /\ from_cache
    /\ trace.crawl_calls = 0

C36_CachePathFrame ==
    /\ [](OnCachePath => /\ \A f \in StateFiles : disk[f] = trace.before.disk[f]
                         /\ content_store = trace.before.content_store)
    /\ [][((pc = "cache" /\ from_cache') \/ (OnCachePath /\ pc # "done"))
             => /\ UNCHANGED <<visited_urls, content_hashes, content_store, disk>>
                /\ UNCHANGED depth_metrics
                /\ pc # "cache" => UNCHANGED cache_metrics]_vars

C36_Witness ==
    /\ OnCachePath
    /\ pc = "done"
    /\ Len(content_store) = 2
    /\ cache_metrics.total = 2
    /\ \A f \in StateFiles : disk[f].exists

(* C39: a seed URL that is in the visited set restored from the previous   *)
(* run is never requested again, also when force_crawl is set; when every  *)
(* seed is in the restored set the crawl requests no page, queues and      *)
(* dispatches no worker, and the store stays the restored store.           *)
RestoredVisited == LoadedVisited(trace.before.disk)

AllSeedsVisited ==
    /\ crawl.all_discovered_urls # {}
    /\ crawl.all_discovered_urls \subseteq RestoredVisited

C39_VisitedSeedsNotFetched ==
    (pc \in CrawlLabels \ {"crawl"})
        => /\ crawl.requested \cap RestoredVisited = {}
           /\ AllSeedsVisited
                 => /\ crawl.requested = {}
                    /\ crawl.queue = <<>>
                    /\ crawl.in_flight = {}
                    /\ content_store = LoadedStore(trace.before.disk)

C39_Witness ==
    /\ pc = "final"
    /\ req.force_crawl
    /\ AllSeedsVisited
    /\ content_store # <<>>

(* C38: a content hash enters the hash set only together with its          *)
(* document: whenever a call of _process_single_url has completed or       *)
(* failed, every hash added since the request arrived is the hash of the   *)
(* body of a document in the store.                                        *)
HashesAddedInRequest == content_hashes \ LoadedHashes(trace.before.disk)

C34_SeedsFiltered ==
    (pc \in CrawlLabels \ {"crawl"} /\ crawl.current_depth = 0)
        => \A u \in crawl.requested :
              /\ u \in ToSet(crawl.urls_to_crawl)
              /\ url_contains_keywords(u)

(* C33: when a fetched URL redirects to a URL that is already visited, the *)
(* page is neither scored nor stored again and the original URL is marked  *)
(* visited: it is not among the URLs the batch scored and queued for       *)
(* processing, and it is in the visited set when the workers start.        *)
RedirectsToVisited(url) ==
    /\ Resolved(url) # url
    /\ Resolved(url) \in LoadedVisited(trace.before.disk)

C33_RedirectToVisitedSkipped ==
    pc = "process"
        => \A u \in crawl.batch_fetched :
              RedirectsToVisited(u)
                 => /\ u \notin ToSet(crawl.batch_queue)
                    /\ u \in visited_urls

(* C31: a call of record_page for a processed page at depth d adds one to  *)
(* the processed count of depth d, and one to its relevant count exactly   *)
(* when the page's score is at least the depth threshold passed in; the    *)
(* buckets of the other depths and the cache bucket stay as they were.     *)
Incremented(before, after, by_total, by_relevant) ==
    /\ after.total = before.total + by_total
    /\ after.relevant = before.relevant + by_relevant

C31_RecordPageCountsOnePage ==
    [][(trace'.call = "record_page" /\ trace'.is_processed)
          => /\ trace'.depth \in DOMAIN depth_metrics'
             /\ Incremented(BucketAt(depth_metrics, trace'.depth),
                            depth_metrics'[trace'.depth], 1,
                            IF trace'.page_score >= trace'.depth_threshold
                            THEN 1 ELSE 0)
             /\ \A d \in (DOMAIN depth_metrics') \ {trace'.depth} :
                   d \in DOMAIN depth_metrics /\ depth_metrics'[d] = depth_metrics[d]
             /\ cache_metrics' = cache_metrics]_vars

C31_Witness ==
    /\ trace.call = "record_page"
    /\ trace.is_processed
    /\ trace.depth = 1
    /\ trace.page_score = trace.depth_threshold
    /\ depth_metrics[1] = [relevant |-> 2, total |-> 2]
    /\ 0 \in DOMAIN depth_metrics
    /\ cache_metrics.total > 0

(* C35: in every state of the meter the relevant count of a bucket is at   *)
(* most its total, for every depth and for the cache; the cumulative       *)
(* counts get_metrics reports are the sums of the per-depth counts, the    *)
(* overall counts are the cumulative counts plus the cache's, and a ratio  *)
(* is 0 whenever its total is 0.                                           *)
RECURSIVE SumReported(_, _, _)
SumReported(per_depth, depths, field) ==
    IF depths = {} THEN 0
    ELSE LET d == CHOOSE x \in depths : TRUE
         IN  per_depth[d][field] + SumReported(per_depth, depths \ {d}, field)

ReportedBuckets(m) ==
    {m.per_depth[d] : d \in DOMAIN m.per_depth}
        \cup {m.cache, m.cumulative, m.overall}

C35_MeterConsistent ==
    LET m == get_metrics(depth_metrics, cache_metrics)
    IN  /\ \A d \in DOMAIN depth_metrics :
              depth_metrics[d].relevant <= depth_metrics[d].total
        /\ cache_metrics.relevant <= cache_metrics.total
        /\ DOMAIN m.per_depth = DOMAIN depth_metrics
        /\ \A d \in DOMAIN depth_metrics :
              /\ m.per_depth[d].relevant_pages = depth_metrics[d].relevant
              /\ m.per_depth[d].total_pages = depth_metrics[d].total
        /\ m.cumulative.relevant_pages =
              SumReported(m.per_depth, DOMAIN m.per_depth, "relevant_pages")
        /\ m.cumulative.total_pages =
              SumReported(m.per_depth, DOMAIN m.per_depth, "total_pages")
        /\ m.overall.relevant_pages =
              m.cumulative.relevant_pages + cache_metrics.relevant
        /\ m.overall.total_pages = m.cumulative.total_pages + cache_metrics.total
        /\ \A b \in ReportedBuckets(m) :
              /\ b.relevant_pages <= b.total_pages
              /\ b.total_pages = 0 => b.harvest_ratio = 0

C35_Witness ==
    /\ DOMAIN depth_metrics = {0, 1}
    /\ depth_metrics[0] = [relevant |-> 0, total |-> 0]
    /\ depth_metrics[1] = [relevant |-> 1, total |-> 2]
    /\ cache_metrics = [relevant |-> 0, total |-> 1]

====
